---------------------------- MODULE Spec2Model ----------------------------
(***************************************************************************)
(* A model of the Sudoku solver of src/1_sudoku/sudoku/board.py (class     *)
(* Board).                                                                 *)
(*                                                                         *)
(* Data representation.                                                    *)
(*   - A Python str is a sequence of characters; a character is a one-     *)
(*     character TLA+ string.  '123' is <<"1","2","3">>, '' is <<>>, and   *)
(*     the box key 'A1' is <<"A","1">>.                                    *)
(*   - A Python list is a sequence, a Python set is a set.                 *)
(*   - A BoardState (Dict[str, str]) is a function from box keys to        *)
(*     strings.  Every dict the program builds is filled in the order of   *)
(*     Board.boxes() (grid_values, dict.copy), so keys() enumerates        *)
(*     boxes() filtered by the dict's domain.                              *)
(*   - Dicts are mutable objects: heap[id] is the current content of the   *)
(*     dict object id, and a call frame refers to a dict by its id.        *)
(***************************************************************************)
EXTENDS Integers, Sequences, FiniteSets

VARIABLES
    self,           \* the Board instance: _diagonal_mode and the three caches
    board_string,   \* the argument given to grid_values
    heap,           \* the dict objects, by object id
    stack,          \* the frames of the running search calls, outermost first
    pc,             \* where the caller is: "init", "idle", "search", "done", "raised"
    last,           \* the call that completed last: [op, arg, raised]
    prev,           \* the content of the caller's dict before that call
    ret             \* what that call returned

vars == <<self, board_string, heap, stack, pc, last, prev, ret>>

\* None, and a reference to the dict object id; heap[id] is the object
None == <<>>
Ref(id) == <<id>>


---------------------------------------------------------------------------
(* Python str and list primitives                                          *)

\* sub in s, for strings (a one-character sub is looked up directly)
StrIn(sub, s) ==
    IF Len(sub) = 1 THEN \E i \in DOMAIN s : s[i] = sub[1]
    ELSE \E i \in 0..Len(s) :
            i + Len(sub) <= Len(s) /\ SubSeq(s, i + 1, i + Len(sub)) = sub

RECURSIVE replace_from(_, _, _)
\* s.replace(old, new) for a non-empty old: every non-overlapping occurrence, left
\* to right
replace_from(s, old, new) ==
    IF Len(s) < Len(old) THEN s
    ELSE IF SubSeq(s, 1, Len(old)) = old
         THEN new \o replace_from(SubSeq(s, Len(old) + 1, Len(s)), old, new)
         ELSE <<Head(s)>> \o replace_from(Tail(s), old, new)

\* s.replace(old, ''), as every call of the program is: with old = '' the string
\* is returned as it is, a one-character old leaves the other characters
replace(s, old) ==
    IF old = <<>> THEN s
    ELSE IF Len(old) = 1 THEN SelectSeq(s, LAMBDA c : c # old[1])
    ELSE replace_from(s, old, <<>>)

\* set(list(s)): the set of the one-character strings of s
CharSet(s) == { <<s[i]>> : i \in DOMAIN s }

\* x in lst, for lists
ListIn(x, lst) == \E i \in DOMAIN lst : lst[i] = x

RECURSIVE Concat(_)
\* sum(lists, [])
Concat(lists) == IF lists = <<>> THEN <<>> ELSE Head(lists) \o Concat(Tail(lists))

\* lst[::-1]
Reversed(lst) == [i \in 1..Len(lst) |-> lst[Len(lst) + 1 - i]]

\* str(number) for the numbers of range(1, 10)
str(number) == <<(<<"1", "2", "3", "4", "5", "6", "7", "8", "9">>)[number]>>

\* int(vl) for a one-character digit string
int(vl) == CHOOSE n \in 1..9 : str(n) = vl

---------------------------------------------------------------------------
(* Class attributes of Board                                               *)

_values == <<"1", "2", "3", "4", "5", "6", "7", "8", "9">>
_rows == <<"A", "B", "C", "D", "E", "F", "G", "H", "I">>
_row_squares == << <<"A", "B", "C">>, <<"D", "E", "F">>, <<"G", "H", "I">> >>
_cols == <<"1", "2", "3", "4", "5", "6", "7", "8", "9">>
_col_squares == << <<"1", "2", "3">>, <<"4", "5", "6">>, <<"7", "8", "9">> >>

---------------------------------------------------------------------------
(* Topology                                                                *)

\* [x_val + y_val for x_val in x_axis for y_val in y_axis]
cross(x_axis, y_axis) ==
    [k \in 1..(Len(x_axis) * Len(y_axis)) |->
        <<x_axis[((k - 1) \div Len(y_axis)) + 1], y_axis[((k - 1) % Len(y_axis)) + 1]>>]

boxes == cross(_rows, _cols)

num_boxes == Len(_rows) * Len(_cols)

_row_units == [i \in 1..Len(_rows) |-> cross(<<_rows[i]>>, _cols)]

_column_units == [j \in 1..Len(_cols) |-> cross(_rows, <<_cols[j]>>)]

_diagonal_units ==
    LET unit_1 == [i \in 1..Len(_values) |->
                      <<_rows[(int(<<_values[i]>>) - 1) + 1], _values[i]>>]
        unit_2 == [i \in 1..Len(_values) |->
                      <<Reversed(_rows)[(int(<<_values[i]>>) - 1) + 1], _values[i]>>]
    IN  <<unit_1, unit_2>>

_square_units ==
    [k \in 1..(Len(_row_squares) * Len(_col_squares)) |->
        cross(_row_squares[((k - 1) \div Len(_col_squares)) + 1],
              _col_squares[((k - 1) % Len(_col_squares)) + 1])]

\* all_units() as it would be without lines 74-75: the diagonals never join
all_units_list_standard(diagonal_mode) ==
    _row_units \o _column_units \o _square_units

\* lines 71-75: the list all_units() builds
all_units_list(diagonal_mode) ==
    (_row_units \o _column_units \o _square_units)
        \o (IF diagonal_mode THEN _diagonal_units ELSE <<>>)

\* lines 85-86: the dict generate_units() builds from the list all_u
generate_units(all_u) ==
    [box \in {boxes[i] : i \in DOMAIN boxes} |->
        SelectSeq(all_u, LAMBDA unit : ListIn(box, unit))]

\* generate_peers() as it would be without "- set([bx])": a box is its own peer
generate_peers_with_self(units_dict) ==
    [bx \in DOMAIN units_dict |->
        LET all_boxes == Concat(units_dict[bx])
        IN  {all_boxes[i] : i \in DOMAIN all_boxes}]

\* lines 97-98: the dict generate_peers() builds from the dict of units
generate_peers(units_dict) ==
    [bx \in DOMAIN units_dict |->
        LET all_boxes == Concat(units_dict[bx])
        IN  {all_boxes[i] : i \in DOMAIN all_boxes} \ {bx}]

\* What the three caches hold once they are filled. A cache is only ever assigned
\* what its generator returns, which depends on _diagonal_mode alone, so it is
\* computed here once for Board(False) and once for Board(True).
generated_for(diagonal_mode) ==
    LET all_u == all_units_list(diagonal_mode)
        units_dict == generate_units(all_u)
    IN  [_all_units |-> all_u, _units |-> units_dict,
         _peers |-> generate_peers(units_dict)]

generated_tables == <<generated_for(FALSE), generated_for(TRUE)>>

generated(slf) == generated_tables[IF slf._diagonal_mode THEN 2 ELSE 1]

\* the list all_units() returns for the instance slf (cached or built now)
all_units(slf) ==
    IF slf._all_units = None THEN generated(slf)._all_units ELSE slf._all_units

\* the instance after a call of all_units()
after_all_units(slf) == [slf EXCEPT !._all_units = all_units(slf)]

\* the dict units(box) indexes (cached or built now, which calls all_units())
units(slf) == IF slf._units = None THEN generated(slf)._units ELSE slf._units

\* the instance after a call of units(box)
after_units(slf) ==
    IF slf._units = None
    THEN [after_all_units(slf) EXCEPT !._units = units(slf)]
    ELSE slf

\* the dict peers(box) indexes (cached or built now, which calls units())
peers(slf) == IF slf._peers = None THEN generated(slf)._peers ELSE slf._peers

\* the instance after a call of peers(box)
after_peers(slf) ==
    IF slf._peers = None
    THEN [after_units(slf) EXCEPT !._peers = peers(slf)]
    ELSE slf

---------------------------------------------------------------------------
(* Grid codec                                                              *)

\* board_dict.keys() as a list: insertion order, which is the order of boxes()
keys(board_dict) == SelectSeq(boxes, LAMBDA box : box \in DOMAIN board_dict)

\* the length test as it would be with > for !=: a short string is let through
grid_values_raises_long(string) == Len(string) > num_boxes

\* grid_values raises ValueError for this argument
grid_values_raises(string) == Len(string) # num_boxes

\* the dict grid_values returns when it does not raise
grid_values(string) ==
    [box \in {boxes[index] : index \in DOMAIN string} |->
        LET index == CHOOSE i \in DOMAIN string : boxes[i] = box
            value == <<string[index]>>
        IN  IF value = <<".">> THEN _values ELSE value]

RECURSIVE board_to_str_range(_, _, _)
\* the loop of board_to_str (lines 123-124) over boxes[lo..hi]: what the keys of
\* the range add to string, the first half of the range and then the second
board_to_str_range(board_dict, lo, hi) ==
    IF lo > hi THEN <<>>
    ELSE IF lo = hi THEN board_dict[boxes[lo]] \o <<",">>
    ELSE LET mid == (lo + hi) \div 2
         IN  board_to_str_range(board_dict, lo, mid)
                 \o board_to_str_range(board_dict, mid + 1, hi)

\* board_to_str as it would be returning string for string[:-1] on line 125
board_to_str_untrimmed(board_dict) == board_to_str_range(board_dict, 1, num_boxes)

board_to_str(board_dict) ==
    LET string == board_to_str_range(board_dict, 1, num_boxes)
    IN  SubSeq(string, 1, Len(string) - 1)

---------------------------------------------------------------------------
(* Constraint propagation                                                  *)

RECURSIVE remove_from_peers(_, _, _)
\* lines 132-133 for the peers prs whose string the digit is still to leave; the
\* peers are a set, and the order in which they are visited does not matter, each
\* being rewritten on its own
remove_from_peers(board_dict, prs, digit) ==
    IF prs = {} THEN board_dict
    ELSE LET peer == CHOOSE p \in prs : TRUE
         IN  CHOOSE result \in
                 {remove_from_peers(rewritten, rest, digit) :
                      rewritten \in {[board_dict EXCEPT
                                         ![peer] = replace(board_dict[peer], digit)]},
                      rest \in {prs \ {peer}}} : TRUE

\* lines 132-133: board_dict[peer] = board_dict[peer].replace(digit, '') for every
\* peer of box (a peer whose string holds no digit is assigned what it holds)
eliminate_box(board_dict, box_peers, digit) ==
    CHOOSE result \in
        {remove_from_peers(board_dict, holding, digit) :
             holding \in {{p \in box_peers :
                              replace(board_dict[p], digit) # board_dict[p]}}} : TRUE

RECURSIVE eliminate_range(_, _, _, _, _)
\* the loop of eliminate (lines 130-133) over solved_values[lo..hi], in list
\* order: the first half of the range, then the second half on its result
\* (which is board_dict itself when the first half changed nothing)
eliminate_range(prs, solved_values, lo, hi, board_dict) ==
    IF lo > hi THEN board_dict
    ELSE IF lo = hi
    THEN LET box == solved_values[lo]
             digit == board_dict[box]
         IN  eliminate_box(board_dict, prs[box], digit)
    ELSE LET mid == (lo + hi) \div 2
         IN  CHOOSE result \in
                 {IF first = board_dict
                  THEN eliminate_range(prs, solved_values, mid + 1, hi, board_dict)
                  ELSE eliminate_range(prs, solved_values, mid + 1, hi, first) :
                      first \in {eliminate_range(prs, solved_values, lo, mid,
                                                 board_dict)}} : TRUE

eliminate(slf, board_dict) ==
    CHOOSE result \in
        {IF solved_values = <<>> THEN board_dict
         ELSE eliminate_range(prs, solved_values, 1, Len(solved_values), board_dict) :
             solved_values \in {SelectSeq(keys(board_dict),
                                          LAMBDA box : Len(board_dict[box]) = 1)},
             prs \in {peers(slf)}} : TRUE

\* the instance after eliminate: peers() is called once a solved box is visited
after_eliminate(slf, board_dict) ==
    IF \E box \in DOMAIN board_dict : Len(board_dict[box]) = 1
    THEN after_peers(slf) ELSE slf

RECURSIVE only_choice_unit(_, _, _)
\* line 143 as it would be with unit[0] for possible_boxes[0]
only_choice_unit_first(unit, number, board_dict) ==
    IF number > 9 THEN board_dict
    ELSE CHOOSE result \in
             {IF Len(possible_boxes) = 1
              THEN CHOOSE forced \in
                       {only_choice_unit(unit, number + 1, assigned) :
                            assigned \in {[board_dict EXCEPT
                                              ![unit[1]] = str(number)]}} : TRUE
              ELSE only_choice_unit(unit, number + 1, board_dict) :
                  possible_boxes \in {SelectSeq(unit,
                      LAMBDA box : StrIn(str(number), board_dict[box]))}} : TRUE

\* line 142 as it would be with >= for ==: the first box that admits the number
\* is given it, however many admit it
only_choice_unit_any(unit, number, board_dict) ==
    IF number > 9 THEN board_dict
    ELSE CHOOSE result \in
             {IF Len(possible_boxes) >= 1
              THEN CHOOSE forced \in
                       {only_choice_unit(unit, number + 1, assigned) :
                            assigned \in {[board_dict EXCEPT
                                              ![possible_boxes[1]] = str(number)]}} : TRUE
              ELSE only_choice_unit(unit, number + 1, board_dict) :
                  possible_boxes \in {SelectSeq(unit,
                      LAMBDA box : StrIn(str(number), board_dict[box]))}} : TRUE

\* the loop over the numbers (line 139) for one unit, from number on
only_choice_unit(unit, number, board_dict) ==
    IF number > 9 THEN board_dict
    ELSE CHOOSE result \in
             {IF Len(possible_boxes) = 1
              THEN CHOOSE forced \in
                       {only_choice_unit(unit, number + 1, assigned) :
                            assigned \in {[board_dict EXCEPT
                                              ![possible_boxes[1]] = str(number)]}} : TRUE
              ELSE only_choice_unit(unit, number + 1, board_dict) :
                  possible_boxes \in {SelectSeq(unit,
                      LAMBDA box : StrIn(str(number), board_dict[box]))}} : TRUE

RECURSIVE only_choice_range(_, _, _, _)
\* the loop over the units (line 138) for all_u[lo..hi], in list order: the
\* first half of the range, then the second half on its result (which is
\* board_dict itself when the first half changed nothing)
only_choice_range(all_u, lo, hi, board_dict) ==
    IF lo > hi THEN board_dict
    ELSE IF lo = hi
    THEN CHOOSE result \in
             {only_choice_unit(unit, 1, board_dict) : unit \in {all_u[lo]}} : TRUE
    ELSE LET mid == (lo + hi) \div 2
         IN  CHOOSE result \in
                 {IF first = board_dict
                  THEN only_choice_range(all_u, mid + 1, hi, board_dict)
                  ELSE only_choice_range(all_u, mid + 1, hi, first) :
                      first \in {only_choice_range(all_u, lo, mid, board_dict)}} : TRUE

only_choice(slf, board_dict) ==
    CHOOSE result \in
        {only_choice_range(all_u, 1, Len(all_u), board_dict) :
             all_u \in {all_units(slf)}} : TRUE

num_solved_boxes(board_dict) ==
    Len(SelectSeq(keys(board_dict), LAMBDA box : Len(board_dict[box]) = 1))

RECURSIVE sorted_by_len(_, _, _)
\* sorted(options, key=len): a stable sort, the keys run from n to the longest
sorted_by_len(options, board_dict, n) ==
    IF \A i \in DOMAIN options : Len(board_dict[options[i]]) < n THEN <<>>
    ELSE SelectSeq(options, LAMBDA box : Len(board_dict[box]) = n)
            \o sorted_by_len(options, board_dict, n + 1)

\* sorted_box_possibilities as it would be returning options unsorted (line 155)
sorted_box_possibilities_unsorted(board_dict) ==
    SelectSeq(keys(board_dict), LAMBDA box : Len(board_dict[box]) > 1)

sorted_box_possibilities(board_dict) ==
    LET options == SelectSeq(keys(board_dict), LAMBDA box : Len(board_dict[box]) > 1)
    IN  sorted_by_len(options, board_dict, 0)

\* One iteration of the while loop of reduce_puzzle (lines 160-171):
\* the dict after it, whether the loop is left, and what is returned then.
reduce_pass(slf, board_dict) ==
    CHOOSE result \in
        {LET solved_values_before == num_solved_boxes(board_dict)
             solved_values_after == num_solved_boxes(chosen)
         IN  [board_dict |-> chosen,
              slf |-> after_all_units(after_eliminate(slf, board_dict)),
              stalled |-> (solved_values_before = solved_values_after),
              failed |-> (solved_values_after = 0)] :
                  chosen \in
                      {CHOOSE second \in
                           {only_choice(after_eliminate(slf, board_dict), eliminated) :
                                eliminated \in {eliminate(slf, board_dict)}} : TRUE}} :
            TRUE

RECURSIVE reduce_puzzle(_, _)
\* reduce_puzzle as a whole: the dict as it is left, and whether None is returned;
\* pass is the one iteration the loop makes next
reduce_puzzle(slf, board_dict) ==
    CHOOSE result \in
        {IF pass.failed \/ pass.stalled
         THEN [board_dict |-> pass.board_dict, slf |-> pass.slf, failed |-> pass.failed]
         ELSE reduce_puzzle(pass.slf, pass.board_dict) :
             pass \in {reduce_pass(slf, board_dict)}} : TRUE

\* validate as it would be if line 181 never found a unit incomplete
validate_accepts_all(slf, board_dict) == TRUE

\* validate as it would be with issubset for != on line 181
validate_subset(slf, board_dict) ==
    LET all_u == all_units(slf)
        complete_unit == CharSet(_values)
    IN  \A u \in DOMAIN all_u :
            {board_dict[all_u[u][i]] : i \in DOMAIN all_u[u]} \subseteq complete_unit

validate(slf, board_dict) ==
    LET all_u == all_units(slf)
        complete_unit == CharSet(_values)
    IN  \A u \in DOMAIN all_u :
            {board_dict[all_u[u][i]] : i \in DOMAIN all_u[u]} = complete_unit

---------------------------------------------------------------------------
(* Naked subsets                                                           *)

\* A Python set of str is iterated in the order of the hashes, which the hash
\* seed of the process fixes: hash_order is that order on the characters, as a
\* list, and in_order(values, hash_order) is list(values).
in_order(values, hash_order) == SelectSeq(hash_order, LAMBDA c : <<c>> \in values)

RECURSIVE remove_each(_, _, _)
\* the loop "for value in values" of _remove_values_in_boxes on new_set
remove_each(new_set, value_list, k) ==
    IF k > Len(value_list) THEN new_set
    ELSE remove_each(IF Len(new_set) > 1
                     THEN replace(new_set, <<value_list[k]>>)
                     ELSE new_set,
                     value_list, k + 1)

RECURSIVE _remove_values_in_boxes(_, _, _, _)
\* _remove_values_in_boxes as it would be without the tests of lines 252 and
\* 255: every value leaves every box of bxs
_remove_values_in_boxes_unguarded(board_dict, values, bxs, hash_order) ==
    [box \in DOMAIN board_dict |->
        IF ListIn(box, bxs)
        THEN SelectSeq(board_dict[box], LAMBDA c : <<c>> \notin values)
        ELSE board_dict[box]]

_remove_values_in_boxes(board_dict, values, bxs, hash_order) ==
    IF bxs = <<>> THEN board_dict
    ELSE LET box == Head(bxs)
             new_set == IF ~(CharSet(board_dict[box]) \subseteq values)
                        THEN remove_each(board_dict[box], in_order(values, hash_order), 1)
                        ELSE board_dict[box]
         IN  _remove_values_in_boxes(
                 IF board_dict[box] # new_set
                 THEN [board_dict EXCEPT ![box] = new_set] ELSE board_dict,
                 values, Tail(bxs), hash_order)

RECURSIVE naked_twins_box(_, _, _, _, _)
\* the loop over the units of box (lines 217-224), from its unit u on; options
\* was read when the loop over the units began (line 216)
naked_twins_box(box_units, u, options, board_dict, hash_order) ==
    IF u > Len(box_units) THEN board_dict
    ELSE LET unit == box_units[u]
             twins == SelectSeq(unit, LAMBDA bx : board_dict[bx] = options)
             bxs == SelectSeq(unit, LAMBDA bx : ~ListIn(bx, twins))
             values == CharSet(options)
         IN  naked_twins_box(box_units, u + 1, options,
                 IF Len(twins) = 2
                 THEN _remove_values_in_boxes(board_dict, values, bxs, hash_order)
                 ELSE board_dict,
                 hash_order)

RECURSIVE naked_twins_range(_, _, _, _, _, _)
\* the loop over the boxes (line 215) for two_value_boxes[lo..hi], in list order:
\* the first half of the range, then the second half on its result (which is
\* board_dict itself when the first half changed nothing)
naked_twins_range(slf, two_value_boxes, lo, hi, board_dict, hash_order) ==
    IF lo > hi THEN board_dict
    ELSE IF lo = hi
    THEN LET box == two_value_boxes[lo]
         IN  naked_twins_box(units(slf)[box], 1, board_dict[box], board_dict,
                             hash_order)
    ELSE LET mid == (lo + hi) \div 2
             first == naked_twins_range(slf, two_value_boxes, lo, mid, board_dict,
                                        hash_order)
         IN  IF first = board_dict
             THEN naked_twins_range(slf, two_value_boxes, mid + 1, hi, board_dict,
                                    hash_order)
             ELSE naked_twins_range(slf, two_value_boxes, mid + 1, hi, first,
                                    hash_order)

naked_twins(slf, board_dict, hash_order) ==
    LET two_value_boxes == SelectSeq(keys(board_dict),
                                     LAMBDA box : Len(board_dict[box]) = 2)
    IN  naked_twins_range(slf, two_value_boxes, 1, Len(two_value_boxes), board_dict,
                          hash_order)

RECURSIVE naked_multi_box(_, _, _, _, _, _, _)
\* the loop over the units of leader_box (lines 235-244), from its unit u on;
\* options was read when the loop over the units began (line 234)
naked_multi_box(leader_box, box_units, u, options, board_dict, size, hash_order) ==
    IF u > Len(box_units) THEN board_dict
    ELSE LET unit == box_units[u]
             subsets == SelectSeq(unit, LAMBDA box :
                            /\ box # leader_box
                            /\ Cardinality(CharSet(board_dict[box])) > 1
                            /\ CharSet(board_dict[box]) \subseteq options)
         IN  naked_multi_box(leader_box, box_units, u + 1, options,
                 IF Len(subsets) = size - 1
                 THEN _remove_values_in_boxes(board_dict, options, unit, hash_order)
                 ELSE board_dict,
                 size, hash_order)

RECURSIVE naked_multi_range(_, _, _, _, _, _, _)
\* the loop over the leaders (line 233) for size_value_boxes[lo..hi], in list
\* order: the first half of the range, then the second half on its result
\* (which is board_dict itself when the first half changed nothing)
naked_multi_range(slf, size_value_boxes, lo, hi, board_dict, size, hash_order) ==
    IF lo > hi THEN board_dict
    ELSE IF lo = hi
    THEN LET leader_box == size_value_boxes[lo]
         IN  naked_multi_box(leader_box, units(slf)[leader_box], 1,
                             CharSet(board_dict[leader_box]), board_dict, size,
                             hash_order)
    ELSE LET mid == (lo + hi) \div 2
             first == naked_multi_range(slf, size_value_boxes, lo, mid, board_dict,
                                        size, hash_order)
         IN  IF first = board_dict
             THEN naked_multi_range(slf, size_value_boxes, mid + 1, hi, board_dict,
                                    size, hash_order)
             ELSE naked_multi_range(slf, size_value_boxes, mid + 1, hi, first,
                                    size, hash_order)

naked_multi(slf, board_dict, size, hash_order) ==
    LET size_value_boxes == SelectSeq(keys(board_dict),
                                      LAMBDA box : Len(board_dict[box]) = size)
    IN  naked_multi_range(slf, size_value_boxes, 1, Len(size_value_boxes),
                          board_dict, size, hash_order)

\* the instance after naked_twins or naked_multi: units() is called once a
\* box of the wanted size is visited
after_naked(slf, board_dict, size) ==
    IF \E box \in DOMAIN board_dict : Len(board_dict[box]) = size
    THEN after_units(slf) ELSE slf

---------------------------------------------------------------------------
(* The callers' inputs                                                     *)

\* A completed grid: every row, column, sub-square and both diagonals hold 1-9.
Completed == <<
    "2", "4", "9", "3", "6", "8", "7", "1", "5",
    "3", "5", "6", "9", "7", "1", "8", "2", "4",
    "7", "8", "1", "5", "4", "2", "6", "3", "9",
    "5", "1", "2", "7", "8", "3", "4", "9", "6",
    "4", "6", "7", "1", "9", "5", "2", "8", "3",
    "8", "9", "3", "4", "2", "6", "5", "7", "1",
    "9", "2", "8", "6", "1", "4", "3", "5", "7",
    "6", "7", "5", "8", "3", "9", "1", "4", "2",
    "1", "3", "4", "2", "5", "7", "9", "6", "8" >>

\* Two puzzles of Completed on which propagation stalls and search branches.
Stalling1 == <<
    ".", "4", "9", ".", ".", ".", ".", "1", "5",
    "3", ".", "6", ".", "7", ".", ".", "2", "4",
    ".", ".", ".", ".", "4", "2", ".", "3", ".",
    ".", ".", "2", ".", "8", "3", "4", "9", ".",
    ".", "6", ".", ".", ".", ".", ".", ".", "3",
    ".", ".", "3", "4", ".", "6", ".", ".", ".",
    "9", "2", "8", ".", "1", ".", "3", "5", "7",
    "6", "7", ".", ".", "3", ".", "1", "4", "2",
    "1", ".", ".", "2", "5", ".", ".", ".", "8" >>

Stalling2 == <<
    "2", "4", ".", "3", ".", ".", ".", ".", ".",
    ".", "5", "6", "9", ".", "1", ".", "2", "4",
    ".", ".", ".", ".", ".", "2", "6", "3", ".",
    ".", "1", "2", ".", "8", "3", "4", "9", "6",
    "4", ".", "7", ".", "9", "5", "2", "8", ".",
    "8", "9", ".", "4", "2", "6", ".", "7", ".",
    "9", "2", "8", "6", ".", ".", "3", ".", ".",
    ".", ".", ".", "8", ".", ".", ".", ".", "2",
    "1", "3", ".", "2", "5", ".", ".", ".", "8" >>

\* how many cells of OpenBoxes a puzzle leaves unknown at most
MaxBlanks == 4

\* by how many characters a board string is too short or too long at most
MaxLenDelta == 1

\* the cells the puzzles leave unknown: A2 A9 B2 B9 hold 4 5 5 4 in Completed,
\* so without them the grid has two completions in standard mode
OpenBoxes == {<<"A", "2">>, <<"A", "9">>, <<"B", "2">>, <<"B", "9">>,
              <<"D", "5">>, <<"E", "8">>}

Blanked(string, cells) ==
    [i \in DOMAIN string |-> IF boxes[i] \in cells THEN "." ELSE string[i]]

Overwritten(string, box, ch) ==
    [i \in DOMAIN string |-> IF boxes[i] = box THEN ch ELSE string[i]]

\* puzzles of Completed with at most MaxBlanks unknown cells among OpenBoxes
Puzzles == {Blanked(Completed, cells) :
               cells \in {c \in SUBSET OpenBoxes : Cardinality(c) <= MaxBlanks}}

\* every puzzle of Completed with exactly one unknown cell
OneUnknown == {Blanked(Completed, {boxes[i]}) : i \in DOMAIN boxes}

\* a puzzle with A1 overwritten: '4' is A2's value (twice in row A once A2 is
\* given), '0' is no value of the alphabet
Corrupted == {Overwritten(string, <<"A", "1">>, ch) : string \in Puzzles, ch \in {"4", "0"}}

AllUnknown == [i \in 1..num_boxes |-> "."]

\* strings of a wrong length: too short, too long
WrongLength ==
    {SubSeq(Completed, 1, num_boxes - d) : d \in 1..MaxLenDelta}
        \cup {Completed \o [i \in 1..d |-> "."] : d \in 1..MaxLenDelta}

\* Stalling1 with the unknown A4 given as '4', which A2 holds in the same row
Duplicated == Overwritten(Stalling1, <<"A", "4">>, "4")

\* Stalling1 with the unknown A5 given as '3', which H5 holds in the same
\* column: propagation runs cells out of candidates
Unsettled == Overwritten(Stalling1, <<"A", "5">>, "3")

BoardStrings ==
    Puzzles \cup OneUnknown \cup Corrupted
        \cup {AllUnknown, Stalling1, Stalling2, Duplicated, Unsettled}
        \cup WrongLength

\* A puzzle of Completed on which eliminate leaves pairs of cells with the same
\* two candidates: D1 and F1 hold '58', F3 and H3 hold '35'.
Twins1 == <<
    "2", ".", "9", "3", ".", ".", ".", ".", "5",
    "3", "5", ".", "9", "7", "1", "8", "2", ".",
    "7", "8", ".", "5", "4", ".", "6", ".", ".",
    ".", ".", ".", ".", ".", "3", "4", ".", "6",
    "4", "6", ".", "1", "9", ".", "2", "8", ".",
    ".", "9", ".", ".", "2", "6", ".", "7", "1",
    "9", "2", "8", ".", "1", ".", "3", "5", ".",
    "6", "7", ".", "8", ".", ".", ".", "4", ".",
    "1", ".", "4", ".", ".", "7", "9", "6", "8" >>

\* Completed without A2 A9 B2 B9 and with '0' for A1: every branch of the search
\* ends in a grid that validate refuses
Exhausting ==
    Overwritten(Blanked(Completed, {<<"A", "2">>, <<"A", "9">>, <<"B", "2">>,
                                    <<"B", "9">>}), <<"A", "1">>, "0")

\* the strings whose dicts the caller works on operation by operation
OpsStrings ==
    {Twins1, Completed, AllUnknown, Overwritten(Completed, <<"A", "1">>, "4"),
     Exhausting}

\* how many iterations of the loop of reduce_puzzle one call of search is
\* followed for
MaxPasses == 8

\* the largest size the caller passes to naked_multi
MaxSize == 3

\* the orders in which a set of characters is iterated (see in_order)
HashOrders == {_values, Reversed(_values)}

---------------------------------------------------------------------------
(* The program as a state machine                                          *)

NoCall == [op |-> "", arg |-> None, raised |-> ""]

Call(op, arg) == [op |-> op, arg |-> arg, raised |-> ""]

\* the dict object a reference points to
Deref(ref) == heap[ref[1]]

NewBoard(diagonal_mode) ==
    [_diagonal_mode |-> diagonal_mode, _peers |-> None, _all_units |-> None,
     _units |-> None]

\* the frame of a call search(board_dict), board_dict referring to a dict object
NewFrame(ref) ==
    [board_dict |-> ref, at |-> "reduce_puzzle", passes |-> 0, reduced |-> None,
     smallest_box |-> None, choices |-> <<>>, k |-> 0, result |-> None]

top == stack[Len(stack)]

SetTop(frame) == [stack EXCEPT ![Len(stack)] = frame]

Init ==
    /\ self \in {NewBoard(d) : d \in BOOLEAN}
    /\ board_string \in BoardStrings
    /\ heap = <<>>
    /\ stack = <<>>
    /\ pc = "init"
    /\ last = NoCall
    /\ prev = None
    /\ ret = None

\* board_dict = Board.grid_values(board_string)
GridValues ==
    /\ pc = "init"
    /\ IF grid_values_raises(board_string)
       THEN /\ pc' = "raised"
            /\ last' = [op |-> "grid_values", arg |-> None, raised |-> "ValueError"]
            /\ ret' = None
            /\ heap' = heap
       ELSE /\ pc' = "idle"
            /\ last' = Call("grid_values", None)
            /\ ret' = Ref(1)
            /\ heap' = <<grid_values(board_string)>>
    /\ UNCHANGED <<self, board_string, stack, prev>>

\* the caller calls search(board_dict) on its dict
SearchCall ==
    /\ pc = "idle"
    /\ pc' = "search"
    /\ stack' = <<NewFrame(Ref(1))>>
    /\ prev' = heap[1]
    /\ UNCHANGED <<self, board_string, heap, last, ret>>

\* line 187, one iteration of the loop of reduce_puzzle (lines 159-172)
ReducePass ==
    /\ pc = "search"
    /\ top.at = "reduce_puzzle"
    /\ top.passes < MaxPasses
    /\ \E pass \in {reduce_pass(self, Deref(top.board_dict))} :
           /\ heap' = [heap EXCEPT ![top.board_dict[1]] = pass.board_dict]
           /\ self' = pass.slf
           /\ stack' = SetTop([top EXCEPT
                  !.passes = @ + 1,
                  !.at = IF pass.failed \/ pass.stalled THEN "reduced" ELSE @,
                  !.reduced = IF pass.failed THEN None
                              ELSE IF pass.stalled THEN top.board_dict ELSE @])
    /\ UNCHANGED <<board_string, pc, last, prev, ret>>

\* lines 188-189: reduce_puzzle returned None
SearchFailed ==
    /\ pc = "search"
    /\ top.at = "reduced"
    /\ top.reduced = None
    /\ stack' = SetTop([top EXCEPT !.at = "return", !.result = None])
    /\ UNCHANGED <<self, board_string, heap, pc, last, prev, ret>>

\* lines 191-195: every box is solved, validate decides
SearchSolved ==
    /\ pc = "search"
    /\ top.at = "reduced"
    /\ top.reduced # None
    /\ num_solved_boxes(Deref(top.reduced)) = num_boxes
    /\ stack' = SetTop([top EXCEPT
           !.at = "return",
           !.result = IF validate(self, Deref(top.reduced)) THEN top.reduced ELSE None])
    /\ self' = after_all_units(self)
    /\ UNCHANGED <<board_string, heap, pc, last, prev, ret>>

\* lines 197-200: the box to branch on and its choices (line 209 without one)
SearchSelect ==
    /\ pc = "search"
    /\ top.at = "reduced"
    /\ top.reduced # None
    /\ num_solved_boxes(Deref(top.reduced)) # num_boxes
    /\ LET possibilities == sorted_box_possibilities(Deref(top.reduced))
       IN  stack' = SetTop(
               IF Len(possibilities) > 0
               THEN [top EXCEPT !.at = "for",
                                !.smallest_box = possibilities[1],
                                !.choices = Deref(top.reduced)[possibilities[1]],
                                !.k = 1]
               ELSE [top EXCEPT !.at = "return", !.result = None])
    /\ UNCHANGED <<self, board_string, heap, pc, last, prev, ret>>

\* the dict object a branch works on: a new object (reduced.copy())
board_copy_ref == Ref(Len(heap) + 1)

\* lines 203-205 as they would be without line 204: the recursive call is
\* given a copy of reduced in which no value is committed
SearchBranchUncommitted ==
    /\ pc = "search"
    /\ top.at = "for"
    /\ top.k <= Len(top.choices)
    /\ heap' = Append(heap, Deref(top.reduced))
    /\ stack' = Append(stack, NewFrame(board_copy_ref))
    /\ UNCHANGED <<self, board_string, pc, last, prev, ret>>

\* lines 203-205 as they would be without the copy: the choice is committed in
\* reduced itself, and reduced is what the recursive call is given
SearchBranchShared ==
    /\ pc = "search"
    /\ top.at = "for"
    /\ top.k <= Len(top.choices)
    /\ LET combination == <<top.choices[top.k]>>
       IN  /\ heap' = [heap EXCEPT ![top.reduced[1]] =
                           [@ EXCEPT ![top.smallest_box] = combination]]
           /\ stack' = Append(stack, NewFrame(top.reduced))
    /\ UNCHANGED <<self, board_string, pc, last, prev, ret>>

\* lines 202-205: the next choice, on a copy of reduced
SearchBranch ==
    /\ pc = "search"
    /\ top.at = "for"
    /\ top.k <= Len(top.choices)
    /\ LET combination == <<top.choices[top.k]>>
       IN  /\ heap' = Append(heap, [Deref(top.reduced) EXCEPT
                                      ![top.smallest_box] = combination])
           /\ stack' = Append(stack, NewFrame(board_copy_ref))
    /\ UNCHANGED <<self, board_string, pc, last, prev, ret>>

\* line 209: no choice is left
SearchExhausted ==
    /\ pc = "search"
    /\ top.at = "for"
    /\ top.k > Len(top.choices)
    /\ stack' = SetTop([top EXCEPT !.at = "return", !.result = None])
    /\ UNCHANGED <<self, board_string, heap, pc, last, prev, ret>>

\* SearchReturn as it would be with reduced for result on line 207: the calling
\* frame returns its own reduced dict when a recursive call found a solution
SearchReturnOwn ==
    /\ pc = "search"
    /\ top.at = "return"
    /\ IF Len(stack) = 1
       THEN /\ pc' = "done"
            /\ ret' = top.result
            /\ last' = Call("search", None)
            /\ stack' = <<>>
            /\ heap' = heap
       ELSE /\ LET caller == stack[Len(stack) - 1]
               IN  stack' = [SubSeq(stack, 1, Len(stack) - 1) EXCEPT ![Len(stack) - 1] =
                       IF top.result # None
                       THEN [caller EXCEPT !.at = "return", !.result = caller.reduced]
                       ELSE [caller EXCEPT !.k = @ + 1]]
            /\ heap' = IF top.result = None /\ top.board_dict = Ref(Len(heap))
                          /\ \A i \in 1..(Len(stack) - 1) :
                                 stack[i].board_dict # Ref(Len(heap))
                       THEN SubSeq(heap, 1, Len(heap) - 1) ELSE heap
            /\ UNCHANGED <<pc, ret, last>>
    /\ UNCHANGED <<self, board_string, prev>>

\* SearchReturn as it would be with line 207 not under the if of line 206: the
\* calling frame returns what its first recursive call returned, None included
SearchReturnFirst ==
    /\ pc = "search"
    /\ top.at = "return"
    /\ IF Len(stack) = 1
       THEN /\ pc' = "done"
            /\ ret' = top.result
            /\ last' = Call("search", None)
            /\ stack' = <<>>
            /\ heap' = heap
       ELSE /\ LET caller == stack[Len(stack) - 1]
               IN  stack' = [SubSeq(stack, 1, Len(stack) - 1) EXCEPT ![Len(stack) - 1] =
                       [caller EXCEPT !.at = "return", !.result = top.result]]
            /\ heap' = IF top.result = None /\ top.board_dict = Ref(Len(heap))
                          /\ \A i \in 1..(Len(stack) - 1) :
                                 stack[i].board_dict # Ref(Len(heap))
                       THEN SubSeq(heap, 1, Len(heap) - 1) ELSE heap
            /\ UNCHANGED <<pc, ret, last>>
    /\ UNCHANGED <<self, board_string, prev>>

\* a call returns: to the caller (the outermost call), or to line 205 of the
\* calling frame, which returns the result (lines 206-207) or goes on with the
\* next choice; the copy of a failed branch is garbage
SearchReturn ==
    /\ pc = "search"
    /\ top.at = "return"
    /\ IF Len(stack) = 1
       THEN /\ pc' = "done"
            /\ ret' = top.result
            /\ last' = Call("search", None)
            /\ stack' = <<>>
            /\ heap' = heap
       ELSE /\ LET caller == stack[Len(stack) - 1]
               IN  stack' = [SubSeq(stack, 1, Len(stack) - 1) EXCEPT ![Len(stack) - 1] =
                       IF top.result # None
                       THEN [caller EXCEPT !.at = "return", !.result = top.result]
                       ELSE [caller EXCEPT !.k = @ + 1]]
            /\ heap' = IF top.result = None /\ top.board_dict = Ref(Len(heap))
                          /\ \A i \in 1..(Len(stack) - 1) :
                                 stack[i].board_dict # Ref(Len(heap))
                       THEN SubSeq(heap, 1, Len(heap) - 1) ELSE heap
            /\ UNCHANGED <<pc, ret, last>>
    /\ UNCHANGED <<self, board_string, prev>>

Search ==
    \/ SearchCall
    \/ ReducePass
    \/ SearchFailed
    \/ SearchSolved
    \/ SearchSelect
    \/ SearchBranch
    \/ SearchExhausted
    \/ SearchReturn

Next == GridValues \/ Search

\* solve: grid_values, then search on the dict it returned
Spec == Init /\ [][Next]_vars

\* solve as the interpreter runs it: one thread, which goes on to its next
\* step as long as there is one
SpecLive == Init /\ [][Next]_vars /\ WF_vars(Next)

---------------------------------------------------------------------------
(* The caller working on its dict operation by operation                   *)

InitOps ==
    /\ self \in {NewBoard(d) : d \in BOOLEAN}
    /\ board_string \in OpsStrings
    /\ heap = <<>>
    /\ stack = <<>>
    /\ pc = "init"
    /\ last = NoCall
    /\ prev = None
    /\ ret = None

\* board_dict = board.eliminate(board_dict)
Eliminate ==
    /\ pc = "idle"
    /\ prev' = heap[1]
    /\ heap' = [heap EXCEPT ![1] = eliminate(self, heap[1])]
    /\ self' = after_eliminate(self, heap[1])
    /\ last' = Call("eliminate", None)
    /\ ret' = Ref(1)
    /\ UNCHANGED <<board_string, stack, pc>>

\* board_dict = board.only_choice(board_dict)
OnlyChoice ==
    /\ pc = "idle"
    /\ prev' = heap[1]
    /\ heap' = [heap EXCEPT ![1] = only_choice(self, heap[1])]
    /\ self' = after_all_units(self)
    /\ last' = Call("only_choice", None)
    /\ ret' = Ref(1)
    /\ UNCHANGED <<board_string, stack, pc>>

\* board.reduce_puzzle(board_dict): the caller's dict is rewritten in place
\* whatever is returned
ReducePuzzle ==
    /\ pc = "idle"
    /\ prev' = heap[1]
    /\ \E reduced \in {reduce_puzzle(self, heap[1])} :
           /\ heap' = [heap EXCEPT ![1] = reduced.board_dict]
           /\ self' = reduced.slf
           /\ ret' = IF reduced.failed THEN None ELSE Ref(1)
    /\ last' = Call("reduce_puzzle", None)
    /\ UNCHANGED <<board_string, stack, pc>>

\* board_dict = board.naked_twins(board_dict)
NakedTwins ==
    /\ pc = "idle"
    /\ prev' = heap[1]
    /\ \E hash_order \in HashOrders :
           heap' = [heap EXCEPT ![1] = naked_twins(self, heap[1], hash_order)]
    /\ self' = after_naked(self, heap[1], 2)
    /\ last' = Call("naked_twins", None)
    /\ ret' = Ref(1)
    /\ UNCHANGED <<board_string, stack, pc>>

\* board_dict = board.naked_multi(board_dict, size)
NakedMulti ==
    /\ pc = "idle"
    /\ prev' = heap[1]
    /\ \E size \in 0..MaxSize :
           /\ \E hash_order \in HashOrders :
                  heap' = [heap EXCEPT ![1] = naked_multi(self, heap[1], size, hash_order)]
           /\ self' = after_naked(self, heap[1], size)
           /\ last' = Call("naked_multi", size)
    /\ ret' = Ref(1)
    /\ UNCHANGED <<board_string, stack, pc>>

\* board.validate(board_dict)
Validate ==
    /\ pc = "idle"
    /\ prev' = heap[1]
    /\ ret' = validate(self, heap[1])
    /\ self' = after_all_units(self)
    /\ last' = Call("validate", None)
    /\ UNCHANGED <<board_string, heap, stack, pc>>

\* Board.board_to_str(board_dict)
BoardToStr ==
    /\ pc = "idle"
    /\ prev' = heap[1]
    /\ ret' = board_to_str(heap[1])
    /\ last' = Call("board_to_str", None)
    /\ UNCHANGED <<self, board_string, heap, stack, pc>>

NextOps ==
    \/ GridValues
    \/ BoardToStr
    \/ Eliminate
    \/ OnlyChoice
    \/ ReducePuzzle
    \/ NakedTwins
    \/ NakedMulti
    \/ Validate
    \/ Search

SpecOps == InitOps /\ [][NextOps]_vars

---------------------------------------------------------------------------
(* Properties                                                              *)

\* the cells of a unit, as a set
Cells(unit) == {unit[i] : i \in DOMAIN unit}

\* board_dict is a completed grid of the configuration: an entry for each of the
\* 81 boxes, one value in every cell, and in every unit (the two diagonals
\* with diagonal_mode) each of the values 1-9 in exactly one cell
IsCompletedGrid(board_dict, diagonal_mode) ==
    /\ DOMAIN board_dict = Cells(boxes)
    /\ \A box \in DOMAIN board_dict : Len(board_dict[box]) = 1
    /\ LET all_u == (_row_units \o _column_units \o _square_units)
                        \o (IF diagonal_mode THEN _diagonal_units ELSE <<>>)
       IN  \A u \in DOMAIN all_u : \A n \in 1..9 :
               Cardinality({box \in Cells(all_u[u]) : board_dict[box] = str(n)}) = 1

\* where box stands in boxes, and so in a board string
index_of(box) ==
    9 * ((CHOOSE r \in 1..9 : _rows[r] = box[1]) - 1)
        + (CHOOSE c \in 1..9 : _cols[c] = box[2])

\* the completed grid a string of 81 values stands for
GridOf(string) == [box \in Cells(boxes) |-> <<string[index_of(box)]>>]

\* every given cell of the puzzle string holds the value string has there
AgreesWith(puzzle, string) ==
    /\ Len(puzzle) = Len(string)
    /\ \A i \in DOMAIN puzzle : puzzle[i] \in {".", string[i]}

\* the given cells of the puzzle string place one value twice in some unit
HasDuplicateGivens(puzzle, diagonal_mode) ==
    /\ Len(puzzle) = num_boxes
    /\ LET all_u == all_units_list(diagonal_mode)
       IN  \E u \in DOMAIN all_u : \E i, j \in DOMAIN all_u[u] :
               /\ i < j
               /\ puzzle[index_of(all_u[u][i])] # "."
               /\ puzzle[index_of(all_u[u][i])] = puzzle[index_of(all_u[u][j])]

\* C1: whenever search returns something other than None (the outermost call
\* and every recursive call, in either mode), the returned dict has one value
\* in each of the 81 cells and every unit of the configuration holds each of
\* the values 1-9; a dict with an empty or an undecided cell is never returned.
C1_SearchReturnsOnlyCompletedGrids ==
    /\ (pc = "done" /\ last.op = "search" /\ ret # None)
           => IsCompletedGrid(Deref(ret), self._diagonal_mode)
    /\ \A i \in DOMAIN stack :
           (stack[i].at = "return" /\ stack[i].result # None)
               => IsCompletedGrid(Deref(stack[i].result), self._diagonal_mode)

\* C1: search has returned a grid that a recursive call found on a copy
C1_Witness ==
    /\ pc = "done" /\ last.op = "search" /\ ret # None /\ ret # Ref(1)
    /\ IsCompletedGrid(Deref(ret), self._diagonal_mode)

\* C2: search returns None only when the puzzle has no solution: when the
\* givens of the puzzle string agree with a completed grid of the configuration
\* (here Completed), search returns a dict and not None.
C2_FailureOnlyWithoutSolution ==
    (/\ pc = "done" /\ last.op = "search"
     /\ AgreesWith(board_string, Completed)
     /\ IsCompletedGrid(GridOf(Completed), self._diagonal_mode))
        => ret # None

\* C3: for a puzzle with exactly one unknown cell whose 80 givens are those of
\* a completed grid, grid_values followed by search returns that very grid.
C3_OneUnknownIsCompleted ==
    (/\ pc = "done" /\ last.op = "search"
     /\ board_string \in OneUnknown
     /\ IsCompletedGrid(GridOf(Completed), self._diagonal_mode))
        => (ret # None /\ Deref(ret) = GridOf(Completed))

\* C3: search has returned for a one-unknown puzzle on a diagonal board
C3_Witness ==
    /\ pc = "done" /\ last.op = "search" /\ ret # None
    /\ board_string \in OneUnknown /\ self._diagonal_mode
    /\ board_string[1] = "."

\* C4: for a puzzle whose givens place one value twice in a unit, the
\* reduce_puzzle call of the outermost search returns None, and search returns
\* None without choosing a box to branch on and without a recursive call.
C4_DuplicatesRejectedAtOnce ==
    HasDuplicateGivens(board_string, self._diagonal_mode) =>
        /\ Len(stack) <= 1
        /\ \A i \in DOMAIN stack :
               /\ stack[i].at \in {"reduce_puzzle", "reduced", "return"}
               /\ stack[i].at # "reduce_puzzle" => stack[i].reduced = None
        /\ (pc = "done" /\ last.op = "search") => ret = None

\* C5: grid_values raises ValueError for every string whose length is not 81
\* and then builds no dict; for a string of length 81 it raises nothing and
\* returns a dict with an entry for each of the 81 boxes, '123456789' for a
\* '.' and the given character for any other.
C5_GridValues ==
    /\ pc # "init" =>
           IF Len(board_string) # 81
           THEN pc = "raised" /\ last.raised = "ValueError" /\ heap = <<>> /\ ret = None
           ELSE pc # "raised" /\ last.raised = ""
    /\ (pc = "idle" /\ last.op = "grid_values") =>
           /\ ret = Ref(1)
           /\ DOMAIN heap[1] = Cells(boxes)
           /\ Cardinality(DOMAIN heap[1]) = 81
           /\ \A i \in 1..81 :
                  heap[1][boxes[i]] = IF board_string[i] = "."
                                      THEN <<"1", "2", "3", "4", "5", "6", "7", "8", "9">>
                                      ELSE <<board_string[i]>>

\* C5: grid_values has raised for a string that is too long
C5_Witness == pc = "raised" /\ last.op = "grid_values" /\ Len(board_string) > 81

\* C6: after naked_twins returns, for every unit and every two distinct cells
\* of it that held the same two candidates in the dict as it was passed, no
\* other cell of that unit holds either of the two values.
C6_TwinsClearTheirUnit ==
    (pc = "idle" /\ last.op = "naked_twins") =>
        LET all_u == all_units_list(self._diagonal_mode)
        IN  \A u \in DOMAIN all_u : \A x, y \in Cells(all_u[u]) :
                (x # y /\ Cardinality(CharSet(prev[x])) = 2
                       /\ CharSet(prev[x]) = CharSet(prev[y]))
                    => \A z \in Cells(all_u[u]) \ {x, y} :
                           CharSet(heap[1][z]) \cap CharSet(prev[x]) = {}

\* the cells of unit other than x that hold more than one candidate, all of
\* them candidates of x
SubsetCells(board_dict, unit, x) ==
    {y \in Cells(unit) \ {x} :
        /\ Cardinality(CharSet(board_dict[y])) > 1
        /\ CharSet(board_dict[y]) \subseteq CharSet(board_dict[x])}

\* unit holds a cell x with exactly k candidates and exactly k - 1 such cells
IsNakedSubset(board_dict, unit, x, k) ==
    /\ x \in Cells(unit)
    /\ Cardinality(CharSet(board_dict[x])) = k
    /\ Cardinality(SubsetCells(board_dict, unit, x)) = k - 1

\* C7: naked_multi(state, k) takes values out of a cell only when a unit of the
\* cell holds, in the dict as it was passed, a cell with exactly k candidates
\* and exactly k - 1 other cells with more than one candidate, all among those
\* k; for such a unit, none of the k values is left in any cell of the unit
\* outside those k cells; and without such a unit the dict is left as it was.
C7_NakedMultiContract ==
    (pc = "idle" /\ last.op = "naked_multi") =>
        LET all_u == all_units_list(self._diagonal_mode)
            k == last.arg
        IN  /\ \A z \in DOMAIN prev :
                   heap[1][z] # prev[z] =>
                       \E u \in DOMAIN all_u : \E x \in Cells(all_u[u]) :
                           z \in Cells(all_u[u]) /\ IsNakedSubset(prev, all_u[u], x, k)
            /\ \A u \in DOMAIN all_u : \A x \in Cells(all_u[u]) :
                   IsNakedSubset(prev, all_u[u], x, k) =>
                       \A z \in Cells(all_u[u]) \ (SubsetCells(prev, all_u[u], x) \cup {x}) :
                           CharSet(heap[1][z]) \cap CharSet(prev[x]) = {}
            /\ (\A u \in DOMAIN all_u : \A x \in Cells(all_u[u]) :
                    ~IsNakedSubset(prev, all_u[u], x, k))
                   => heap[1] = prev

\* after holds the keys of before, and for every key no value before lacks
Narrows(before, after) ==
    /\ DOMAIN after = DOMAIN before
    /\ \A box \in DOMAIN before : CharSet(after[box]) \subseteq CharSet(before[box])

\* C8: eliminate, only_choice, reduce_puzzle, naked_twins, naked_multi and the
\* steps of search only narrow: after any sequence of them every dict (the
\* caller's, and every copy search works on) has the 81 keys grid_values gave
\* it, each cell holding no value it did not hold at first, and each single
\* operation leaves the caller's dict narrower than it found it.
C8_OnlyNarrows ==
    /\ \A id \in DOMAIN heap :
           /\ DOMAIN heap[id] = Cells(boxes)
           /\ \A i \in DOMAIN boxes :
                  CharSet(heap[id][boxes[i]]) \subseteq
                      IF board_string[i] = "." THEN CharSet(_values)
                      ELSE {<<board_string[i]>>}
    /\ (pc \in {"idle", "done"} /\ prev # None) => Narrows(prev, heap[1])

\* C8: the caller called naked_multi and then search, whose passes took
\* values out of the caller's dict and which now works on a copy of it
C8_Witness ==
    /\ pc = "search" /\ Len(heap) >= 2
    /\ last.op = "naked_multi" /\ last.arg = 2
    /\ \E box \in DOMAIN prev : Len(heap[1][box]) < Len(prev[box])
    /\ \E i \in DOMAIN boxes :
           board_string[i] = "." /\ Len(heap[2][boxes[i]]) < 9

\* how many of the two diagonals box lies on
diagonals_of(box) == Len(SelectSeq(_diagonal_units, LAMBDA unit : ListIn(box, unit)))

\* C9 (as the spec states it): with diagonal mode off every cell has exactly
\* 20 peers; with diagonal mode on a cell off the diagonals has exactly 20 and
\* a cell on a diagonal has at most 22.
C9_PeersAtMost22 ==
    \A box \in Cells(boxes) :
        LET size == Cardinality(peers(self)[box])
        IN  IF self._diagonal_mode /\ diagonals_of(box) > 0
            THEN size <= 22
            ELSE size = 20

\* C9 (amended): with diagonal mode off every cell has exactly 20 peers; with
\* diagonal mode on a cell off the diagonals has exactly 20, a cell on one
\* diagonal exactly 26 and the centre E5, which lies on both, exactly 32.
C9_PeersBySize ==
    \A box \in Cells(boxes) :
        LET size == Cardinality(peers(self)[box])
        IN  IF self._diagonal_mode
            THEN size = 20 + 6 * diagonals_of(box)
            ELSE size = 20

\* C9: peers has been generated and cached on a diagonal board, and E5 lies
\* on both diagonals
C9_Witness ==
    /\ self._diagonal_mode /\ self._peers # None
    /\ diagonals_of(<<"E", "5">>) = 2
    /\ Cardinality(self._peers[<<"E", "5">>]) = 32

\* C10: validate returns true exactly when in every unit of the configuration
\* the nine cells hold the nine values, none twice and none missing; it returns
\* false when some cell is empty or holds several candidates; and it leaves the
\* dict as it was.
C10_Validate ==
    (pc = "idle" /\ last.op = "validate") =>
        /\ ret = IsCompletedGrid(prev, self._diagonal_mode)
        /\ (\E box \in DOMAIN prev : Len(prev[box]) # 1) => ret = FALSE
        /\ heap[1] = prev

\* C10: validate has refused a dict with one value in every cell
C10_Witness ==
    /\ pc = "idle" /\ last.op = "validate" /\ ret = FALSE
    /\ \A box \in DOMAIN prev : Len(prev[box]) = 1

---------------------------------------------------------------------------

\* the characters of string joined by ','
Joined(string) ==
    [i \in 1..(2 * Len(string) - 1) |->
        IF i % 2 = 1 THEN string[(i + 1) \div 2] ELSE ","]

\* C11: for a board string of 81 characters that are all values 1-9,
\* board_to_str of the dict grid_values made of it is the characters of the
\* string, in row-major order, joined by ','.
C11_BoardToStrOfGridValues ==
    (/\ last.op = "board_to_str"
     /\ prev = grid_values(board_string)
     /\ \A i \in DOMAIN board_string : StrIn(<<board_string[i]>>, _values))
        => ret = Joined(board_string)

C11_Witness ==
    /\ last.op = "board_to_str"
    /\ prev = grid_values(board_string)
    /\ board_string = Overwritten(Completed, <<"A", "1">>, "4")
    /\ Len(ret) = 161
    /\ ret[1] = "4" /\ ret[2] = "," /\ ret[161] = "8"

---------------------------------------------------------------------------

\* no cell of board_dict has run out of candidates
NoEmptyCell(board_dict) == \A box \in DOMAIN board_dict : board_dict[box] # <<>>

\* C12: reduce_puzzle returns None whenever a pass leaves some cell without a
\* candidate: every dict it returns, to the caller or to search on line 187,
\* holds at least one candidate in each of its cells.
C12_ResultHasNoEmptyCell ==
    /\ (pc = "idle" /\ last.op = "reduce_puzzle" /\ ret # None)
           => NoEmptyCell(Deref(ret))
    /\ \A i \in DOMAIN stack :
           (stack[i].at # "reduce_puzzle" /\ stack[i].reduced # None)
               => NoEmptyCell(Deref(stack[i].reduced))

---------------------------------------------------------------------------

\* neither propagation rule changes board_dict
IsFixpoint(slf, board_dict) ==
    /\ eliminate(slf, board_dict) = board_dict
    /\ only_choice(slf, board_dict) = board_dict

\* C13: every dict reduce_puzzle returns (search's reduced, line 187) is a
\* fixpoint of the propagation rules: eliminate applied to it once more changes
\* nothing, and neither does only_choice.
C13_ResultIsFixpoint ==
    \A i \in DOMAIN stack :
        (stack[i].at # "reduce_puzzle" /\ stack[i].reduced # None)
            => IsFixpoint(self, Deref(stack[i].reduced))

\* a dict reduce_puzzle returned that is no fixpoint holds a cell without candidates
C13_NonFixpointHasEmptyCell ==
    \A i \in DOMAIN stack :
        (stack[i].at # "reduce_puzzle" /\ stack[i].reduced # None)
            => \/ IsFixpoint(self, Deref(stack[i].reduced))
               \/ ~NoEmptyCell(Deref(stack[i].reduced))

---------------------------------------------------------------------------

\* the calls of search in progress work on pairwise different dict objects
OwnDicts ==
    \A i, j \in DOMAIN stack :
        i < j => stack[i].board_dict # stack[j].board_dict

\* a recursive call that has not run yet holds the caller's reduced dict as it
\* is now, but for the chosen box, which holds the value being tried
BranchStartsFromParent ==
    \A i \in DOMAIN stack :
        (i > 1 /\ stack[i].at = "reduce_puzzle" /\ stack[i].passes = 0)
            => LET caller == stack[i - 1]
               IN  /\ caller.at = "for"
                   /\ caller.k \in DOMAIN caller.choices
                   /\ Deref(stack[i].board_dict) =
                          [Deref(caller.reduced) EXCEPT
                              ![caller.smallest_box] = <<caller.choices[caller.k]>>]

\* a step leaves the dict of every call that is waiting for a recursive call
\* as it is
CallersUntouched ==
    \A i \in DOMAIN stack :
        i < Len(stack)
            => /\ stack[i].board_dict[1] \in DOMAIN heap'
               /\ heap'[stack[i].board_dict[1]] = heap[stack[i].board_dict[1]]

\* C14: the branches of search share no mutable state: each recursive call
\* works on a dict object of its own, which starts as the caller's reduced dict
\* with only the chosen box set to the value tried, and no step of a branch
\* changes the dict of a waiting caller, so that every branch of one call
\* starts from the same reduced dict.
C14_BranchesShareNoState ==
    [](OwnDicts /\ BranchStartsFromParent) /\ [][CallersUntouched]_vars

\* a later branch of a call is about to run, after an earlier one has failed,
\* on a dict that differs from the caller's in the chosen box
C14_Witness ==
    /\ Len(stack) >= 2
    /\ top.passes = 0
    /\ stack[Len(stack) - 1].k >= 2
    /\ Deref(top.board_dict) # Deref(stack[Len(stack) - 1].reduced)

---------------------------------------------------------------------------

\* box is a cell of board_dict with more than one candidate that has the fewest
\* candidates of all such cells, and stands first in boxes among those with as few
IsFirstSmallest(board_dict, box) ==
    /\ Len(board_dict[box]) > 1
    /\ \A other \in DOMAIN board_dict :
           Len(board_dict[other]) > 1
               => \/ Len(board_dict[box]) < Len(board_dict[other])
                  \/ /\ Len(board_dict[box]) = Len(board_dict[other])
                     /\ index_of(box) <= index_of(other)

\* C15: whenever search branches, at any depth, the box it has chosen is a cell
\* of the reduced dict with more than one candidate whose number of candidates
\* is the smallest among such cells, and the first in row-major order among
\* the cells with that number.
C15_ChoosesFirstSmallest ==
    \A i \in DOMAIN stack :
        stack[i].at = "for"
            => /\ IsFirstSmallest(Deref(stack[i].reduced), stack[i].smallest_box)
               /\ stack[i].choices = Deref(stack[i].reduced)[stack[i].smallest_box]

\* a recursive call has chosen its box on a copy, passing over an earlier cell
\* with more candidates and preferring it to a later one with as many
C15_Witness ==
    /\ Len(stack) >= 2
    /\ top.at = "for"
    /\ LET reduced == Deref(top.reduced)
       IN  /\ \E other \in DOMAIN reduced :
                  /\ index_of(other) < index_of(top.smallest_box)
                  /\ Len(reduced[other]) > Len(reduced[top.smallest_box])
           /\ \E other \in DOMAIN reduced :
                  /\ index_of(other) > index_of(top.smallest_box)
                  /\ Len(reduced[other]) = Len(reduced[top.smallest_box])

---------------------------------------------------------------------------

\* the choices of every call that has chosen its box are in ascending order, and
\* a call that leaves its loop has a result (k is the choice that gave it) or
\* has gone through all its choices
ChoicesInOrder ==
    \A i \in DOMAIN stack :
        /\ stack[i].at = "for"
               => \A a, b \in DOMAIN stack[i].choices :
                      a < b => int(<<stack[i].choices[a]>>) < int(<<stack[i].choices[b]>>)
        /\ (stack[i].at = "return" /\ stack[i].smallest_box # None)
               => IF stack[i].result = None
                  THEN stack[i].k = Len(stack[i].choices) + 1
                  ELSE stack[i].k \in DOMAIN stack[i].choices

\* what a step does to the loop of lines 202-207
BranchStep ==
    LET n == Len(stack)
    IN  /\ \* a recursive call is made: for choice k of a call that is in its loop
           Len(stack') = n + 1
               => /\ n >= 1 => /\ stack[n].at = "for"
                               /\ stack'[n] = stack[n]
                               /\ stack[n].k \in DOMAIN stack[n].choices
                               /\ heap'[stack'[n + 1].board_dict[1]][stack[n].smallest_box]
                                      = <<stack[n].choices[stack[n].k]>>
        /\ \* a recursive call returns: its result ends the loop, None moves
           \* the loop on by one choice
           (n >= 2 /\ Len(stack') = n - 1)
               => IF stack[n].result # None
                  THEN stack'[n - 1] = [stack[n - 1] EXCEPT !.at = "return",
                                                           !.result = stack[n].result]
                  ELSE stack'[n - 1] = [stack[n - 1] EXCEPT !.k = @ + 1]
        /\ \* the running call goes on: the loop starts at the first choice and
           \* is left with None only past the last
           (n >= 1 /\ Len(stack') = n)
               => /\ (stack[n].at # "for" /\ stack'[n].at = "for") => stack'[n].k = 1
                  /\ (stack[n].at = "for" /\ stack'[n] # stack[n])
                         => /\ stack[n].k = Len(stack[n].choices) + 1
                            /\ stack'[n] = [stack[n] EXCEPT !.at = "return",
                                                           !.result = None]

\* C16: a call of search that branches tries the values of the chosen box in
\* ascending order, one recursive call at a time; the first recursive call that
\* returns a solution ends the loop and its result is returned, no later value
\* being tried; None is returned only after the recursive call of every value
\* has returned None.
C16_AscendingFirstSuccess == []ChoicesInOrder /\ [][BranchStep]_vars

\* a call is about to return the solution of its second or later value, the
\* earlier ones having failed
C16_Witness ==
    /\ pc = "search"
    /\ top.at = "return"
    /\ top.result # None
    /\ top.k >= 2
    /\ top.k \in DOMAIN top.choices

---------------------------------------------------------------------------

\* how deep the recursive calls of search are nested: the calls in progress
\* but for the outermost
RecursiveCalls == Len(stack) - 1

\* the cells that held more than one candidate in the dict given to the
\* outermost call of search
OpenAtCall == {box \in DOMAIN prev : Len(prev[box]) > 1}

\* the recursive calls of search are nested no deeper than there were cells
\* with more than one candidate in the dict of the outermost call, 81 at most
DepthBounded ==
    pc = "search"
        => /\ RecursiveCalls <= Cardinality(OpenAtCall)
           /\ RecursiveCalls <= num_boxes

\* C17: every call of search terminates, each loop of reduce_puzzle stalling
\* after finitely many passes, and the recursive calls are never nested deeper
\* than the number of cells that had more than one candidate in the dict
\* given to the outermost call, so never deeper than 81.
C17_TerminatesWithinDepth ==
    []DepthBounded /\ <>(pc \in {"done", "raised"})

\* a recursive call within a recursive call, in the second pass of its
\* reduce_puzzle
C17_Witness ==
    /\ pc = "search"
    /\ RecursiveCalls >= 2
    /\ RecursiveCalls < Cardinality(OpenAtCall)
    /\ top.at = "reduce_puzzle"
    /\ top.passes >= 2

---------------------------------------------------------------------------

\* the cells of the unit that admit number in board_dict
Holders(board_dict, unit, number) ==
    {box \in Cells(unit) : StrIn(str(number), board_dict[box])}

\* the values of which box is the only holder in some unit of the configuration
OnlyHolderOf(board_dict, diagonal_mode, box) ==
    LET all_u == all_units_list(diagonal_mode)
    IN  {number \in 1..9 :
            \E u \in DOMAIN all_u : Holders(board_dict, all_u[u], number) = {box}}

\* C18 as stated: after only_choice, every cell that was in the input dict the
\* only cell of some unit to admit some value holds exactly that value, and
\* every cell that was the only holder of no value in any unit is as it was.
C18_ForcedByInputOnly ==
    (pc = "idle" /\ last.op = "only_choice")
        => \A box \in DOMAIN prev :
               LET only_of == OnlyHolderOf(prev, self._diagonal_mode, box)
               IN  /\ \A number \in only_of : heap[1][box] = str(number)
                   /\ only_of = {} => heap[1][box] = prev[box]

\* C18, amended: only_choice works on the dict as it rewrites it. After it,
\* a cell is as it was or holds a single value that it admitted before and
\* that no other cell of one of its units admits now; and every cell that was
\* in the input dict the only cell of some unit to admit some value holds a
\* single value, one it admitted before.
C18_ForcedAsRewritten ==
    (pc = "idle" /\ last.op = "only_choice")
        => \A box \in DOMAIN prev :
               /\ \/ heap[1][box] = prev[box]
                  \/ /\ Len(heap[1][box]) = 1
                     /\ StrIn(heap[1][box], prev[box])
                     /\ int(heap[1][box])
                            \in OnlyHolderOf(heap[1], self._diagonal_mode, box)
               /\ OnlyHolderOf(prev, self._diagonal_mode, box) # {}
                      => /\ Len(heap[1][box]) = 1
                         /\ StrIn(heap[1][box], prev[box])

\* only_choice has given D1 of Twins1 (after eliminate) the value 5: D1 held
\* '58' and was the only holder of no value until an earlier unit was rewritten;
\* another cell, the only holder of a value in the input dict, was given it
C18_Witness ==
    /\ pc = "idle"
    /\ last.op = "only_choice"
    /\ prev[<<"D", "1">>] = <<"5", "8">>
    /\ OnlyHolderOf(prev, self._diagonal_mode, <<"D", "1">>) = {}
    /\ heap[1][<<"D", "1">>] = <<"5">>
    /\ \E box \in DOMAIN prev :
           /\ Len(prev[box]) > 1
           /\ OnlyHolderOf(prev, self._diagonal_mode, box) # {}
           /\ heap[1][box] # prev[box]

---------------------------------------------------------------------------

\* C19: a solution search returns agrees with the dict the outermost call was
\* given: a cell that held a single value there holds the same value in the
\* solution, and every other cell holds one value, which was among the
\* candidates of that cell there.
C19_SolutionAgreesWithInput ==
    (pc = "done" /\ last.op = "search" /\ ret # None)
        => \A box \in DOMAIN prev :
               /\ box \in DOMAIN Deref(ret)
               /\ IF Len(prev[box]) = 1
                  THEN Deref(ret)[box] = prev[box]
                  ELSE /\ Len(Deref(ret)[box]) = 1
                       /\ StrIn(Deref(ret)[box], prev[box])

\* search has returned a solution found in a recursive call, for a dict that
\* held givens and cells with several candidates
C19_Witness ==
    /\ pc = "done"
    /\ last.op = "search"
    /\ ret # None
    /\ ret # Ref(1)
    /\ \E box \in DOMAIN prev : Len(prev[box]) = 1
    /\ \E box \in DOMAIN prev : Len(prev[box]) > 1 /\ Len(Deref(ret)[box]) = 1

---------------------------------------------------------------------------

\* C20: naked_twins and naked_multi, for every size, create no contradiction:
\* a cell that held a candidate before the call holds one after it, and a cell
\* that held a single value before the call holds the same value after it.
C20_NakedKeepsCells ==
    (pc = "idle" /\ last.op \in {"naked_twins", "naked_multi"})
        => \A box \in DOMAIN prev :
               /\ prev[box] # <<>> => heap[1][box] # <<>>
               /\ Len(prev[box]) = 1 => heap[1][box] = prev[box]

\* naked_multi has taken candidates from a cell of a dict that held solved
\* cells, for a size of two or more
C20_Witness ==
    /\ pc = "idle"
    /\ last.op = "naked_multi"
    /\ last.arg >= 2
    /\ \E box \in DOMAIN prev : Len(prev[box]) = 1
    /\ \E box \in DOMAIN prev : heap[1][box] # prev[box]

=============================================================================
